---- MODULE Spec2Model ----
(***************************************************************************)
(* The API-chaining engine of makeyourjarvis: the chained endpoint         *)
(* (src/app/api/chainFetch/route.ts), the single/double-hop endpoint       *)
(* (src/app/api/openFetch/route.ts) and the credential helper they rest on *)
(* (src/app/utils/auth.ts).                                                *)
(*                                                                         *)
(* JavaScript values are tagged records, so that values of different types *)
(* are comparable.  Strings that the code searches or splits (URLs, media  *)
(* types, dot paths) are sequences of tokens.                              *)
(***************************************************************************)
EXTENDS Integers, Sequences, FiniteSets, TLC

----------------------------------------------------------------------------
(* JavaScript values *)

Undef == [t |-> "undefined"]

Null == [t |-> "null"]

Str(s) == [t |-> "string", s |-> s]

Num(n) == [t |-> "number", n |-> n]

Bool(b) == [t |-> "boolean", b |-> b]

\* A plain object: o is a function from its own keys to values.
Obj(f) == [t |-> "object", o |-> f]

\* An array is an object whose index keys are "0", "1", ...
Arr(f) == [t |-> "array", o |-> f]

\* A function object (the registry's entries, Object.prototype's methods).
Fn(name) == [t |-> "function", name |-> name]

\* The outcome of an evaluation that throws.
Throws(msg) == [t |-> "throw", msg |-> msg]

EmptyObj == Obj(<<>>)

IsThrow(v) == v.t = "throw"

\* The array index keys the model distinguishes.
IdxKeys == <<"0", "1", "2">>

IsIdxKey(k) == \E i \in 1..Len(IdxKeys) : IdxKeys[i] = k

\* length of an array: one more than its largest index.
ArrLen(f) ==
  LET present == {i \in 1..Len(IdxKeys) : IdxKeys[i] \in DOMAIN f}
  IN  IF present = {} THEN 0 ELSE CHOOSE i \in present : \A j \in present : j <= i

\* Object.prototype is one object per process, shared by every invocation of
\* every handler: objectPrototype maps the properties that were added to it
\* at run time to their values.
VARIABLE objectPrototype

\* Properties every object inherits from Object.prototype.
ObjectProto == {"toString", "constructor"}

\* JavaScript truthiness (the conditions of `if (x)`, `x || y`, `x ? a : b`).
Truthy(v) ==
  CASE v.t = "undefined" -> FALSE
    [] v.t = "null"      -> FALSE
    [] v.t = "boolean"   -> v.b
    [] v.t = "number"    -> v.n # 0
    [] v.t = "string"    -> Len(v.s) > 0
    [] OTHER             -> TRUE

SetKey(f, k, v) == [x \in (DOMAIN f) \cup {k} |-> IF x = k THEN v ELSE f[x]]

\* A property that is not an own property is looked up on the prototype
\* chain, which ends in Object.prototype: `__proto__` is the accessor that
\* returns Object.prototype itself, then come the properties added to it at
\* run time, then its built-in methods.
Inherited(key) ==
  IF key = "__proto__" THEN Obj(objectPrototype)
  ELSE IF key \in DOMAIN objectPrototype THEN objectPrototype[key]
  ELSE IF key \in ObjectProto THEN Fn(key) ELSE Undef

\* acc?.[key]: optional property read.
Get(v, key) ==
  CASE v.t \in {"undefined", "null"} -> Undef
    [] v.t = "object" ->
         IF key \in DOMAIN v.o THEN v.o[key] ELSE Inherited(key)
    [] v.t = "array" ->
         IF key \in DOMAIN v.o THEN v.o[key]
         ELSE IF key = "length" THEN Num(ArrLen(v.o))
         ELSE Inherited(key)
    [] v.t = "string" ->
         IF key = "length" THEN Num(Len(v.s)) ELSE Inherited(key)
    [] v.t = "function" ->
         IF key = "length" THEN Num(0) ELSE Inherited(key)
    [] OTHER -> Inherited(key)

\* acc[key] = value in strict mode (route modules are ES modules).
Assign(acc, key, value) ==
  CASE acc.t \in {"object", "array"} -> [acc EXCEPT !.o = SetKey(acc.o, key, value)]
    [] acc.t = "function"            ->
         IF key = "length" THEN Throws("TypeError") ELSE acc
    [] OTHER                         -> Throws("TypeError")

----------------------------------------------------------------------------
(* Token strings *)

\* hay.includes(needle)
Includes(hay, needle) ==
  \E i \in 1..(Len(hay) - Len(needle) + 1) :
     SubSeq(hay, i, i + Len(needle) - 1) = needle

RECURSIVE SplitAt(_, _)
\* s.split(sep) for a one-token separator: the pieces between separators.
SplitAt(s, sep) ==
  LET hits == {i \in 1..Len(s) : s[i] = sep}
  IN  IF hits = {} THEN <<s>>
      ELSE LET i == CHOOSE h \in hits : \A g \in hits : h <= g
           IN  <<SubSeq(s, 1, i - 1)>> \o SplitAt(SubSeq(s, i + 1, Len(s)), sep)

\* A dot path is a token string whose pieces hold at most one key token;
\* the key of a piece is that token, or "" for an empty piece.
KeyOf(piece) == IF piece = <<>> THEN "" ELSE piece[1]

\* path.split('.')
SplitPath(path) ==
  LET pieces == SplitAt(path, ".")
  IN  [i \in 1..Len(pieces) |-> KeyOf(pieces[i])]

----------------------------------------------------------------------------
(* Path utilities *)

RECURSIVE extractByPath(_, _)
\* extractByPath reading acc[key] without the optional chaining.
extractByPath_strict(data, path) ==
  IF path = <<>> THEN data
  ELSE IF data.t \in {"undefined", "null"} THEN Throws("TypeError")
  ELSE extractByPath(Get(data, Head(path)), Tail(path))

\* path.reduce((acc, key) => acc?.[key], data)
extractByPath(data, path) ==
  IF path = <<>> THEN data
  ELSE extractByPath(Get(data, Head(path)), Tail(path))

RECURSIVE InjectParts(_, _, _)
\* The reduce of injectAtPath followed by the final assignment, on the
\* value of the object graph reachable from acc.
InjectParts(acc, parts, value) ==
  IF Len(parts) = 1 THEN Assign(acc, parts[1], value)
  ELSE LET part  == Head(parts)
           cur   == Get(acc, part)
           fresh == ~Truthy(cur)
           child == IF fresh THEN EmptyObj ELSE cur
           sub   == InjectParts(child, Tail(parts), value)
       IN  IF fresh /\ IsThrow(Assign(acc, part, EmptyObj))
             THEN Throws("TypeError")
           ELSE IF IsThrow(sub) THEN sub
           ELSE IF acc.t \in {"object", "array"} /\ (fresh \/ part \in DOMAIN acc.o)
             THEN Assign(acc, part, sub)
           ELSE acc

injectAtPath(obj, path, value) == InjectParts(obj, SplitPath(path), value)

\* The properties of Object.prototype after injectAtPath(obj, path, value).
\* A path whose first segment is `__proto__` walks from a plain object into
\* Object.prototype (acc['__proto__'] is truthy, so no own property is
\* created), and the remaining segments are created and assigned there.
PrototypeAfterInject(obj, path, value) ==
  LET parts == SplitPath(path)
  IN  IF /\ Len(parts) >= 2
         /\ parts[1] = "__proto__"
         /\ obj.t = "object"
         /\ "__proto__" \notin DOMAIN obj.o
        THEN LET after == InjectParts(Obj(objectPrototype), Tail(parts), value)
             IN  IF IsThrow(after) THEN objectPrototype ELSE after.o
      ELSE objectPrototype

\* Objects by reference.  A heap is a sequence of objects; the object at
\* address a holds, under each key, a primitive value or a reference.
Ref(a) == [t |-> "ref", a |-> a]

RECURSIVE Store(_, _), StoreFields(_, _, _, _)
\* The heap that holds value v as fresh objects, and the reference to it
\* (v itself when it is a primitive).
Store(heap, v) ==
  IF v.t \notin {"object", "array"} THEN [heap |-> heap, v |-> v]
  ELSE LET a == Len(heap) + 1
       IN  [heap |-> StoreFields(Append(heap, [t |-> v.t, o |-> <<>>]), a, v.o,
                                 DOMAIN v.o),
            v    |-> Ref(a)]

StoreFields(heap, a, fields, keys) ==
  IF keys = {} THEN heap
  ELSE LET k  == CHOOSE x \in keys : TRUE
           st == Store(heap, fields[k])
       IN  StoreFields([st.heap EXCEPT ![a].o = SetKey(@, k, st.v)], a, fields,
                       keys \ {k})

RECURSIVE Deref(_, _)
\* The value a reference stands for in a heap.
Deref(heap, v) ==
  IF v.t = "ref"
    THEN [t |-> heap[v.a].t,
          o |-> [k \in DOMAIN heap[v.a].o |-> Deref(heap, heap[v.a].o[k])]]
  ELSE v

\* acc[part] where acc may be a reference.
RefGet(heap, acc, key) ==
  IF acc.t = "ref"
    THEN IF key \in DOMAIN heap[acc.a].o THEN heap[acc.a].o[key]
         ELSE Get([t |-> heap[acc.a].t, o |-> <<>>], key)
  ELSE Get(acc, key)

\* A TypeError thrown with the heap as it is at that point.
ThrowsWith(heap) == [t |-> "throw", msg |-> "TypeError", heap |-> heap]

RECURSIVE RefReduce(_, _, _)
\* parts.reduce((acc, part) => { if (!acc[part]) acc[part] = {}; return
\* acc[part] }, obj): the node reached and the heap after the walk.  Reading
\* a property of undefined or null throws, and so does, in a module,
\* creating a property on a primitive.
RefReduce(heap, acc, parts) ==
  IF parts = <<>> THEN [t |-> "ok", heap |-> heap, acc |-> acc]
  ELSE IF acc.t \in {"undefined", "null"} THEN ThrowsWith(heap)
  ELSE IF Truthy(RefGet(heap, acc, Head(parts)))
    THEN RefReduce(heap, RefGet(heap, acc, Head(parts)), Tail(parts))
  ELSE IF acc.t # "ref" THEN ThrowsWith(heap)
  ELSE LET a == Len(heap) + 1
       IN  RefReduce(Append([heap EXCEPT ![acc.a].o = SetKey(@, Head(parts), Ref(a))],
                            [t |-> "object", o |-> <<>>]),
                     Ref(a), Tail(parts))

\* RefInjectAtPath returning a copy of obj in place of obj.
RefInjectAtPath_copy(heap, obj, path, value) ==
  LET parts    == SplitPath(path)
      lastPart == parts[Len(parts)]
      walk     == RefReduce(heap, obj, SubSeq(parts, 1, Len(parts) - 1))
  IN  IF IsThrow(walk) THEN walk
      ELSE IF walk.acc.t # "ref" THEN ThrowsWith(walk.heap)
      ELSE LET done == [walk.heap EXCEPT ![walk.acc.a].o = SetKey(@, lastPart, value)]
           IN  [t |-> "ok", heap |-> Append(done, done[obj.a]),
                ret |-> Ref(Len(done) + 1)]

\* injectAtPath on references: the heap after the call and the reference
\* returned, or a throw.
RefInjectAtPath(heap, obj, path, value) ==
  LET parts    == SplitPath(path)
      lastPart == parts[Len(parts)]
      walk     == RefReduce(heap, obj, SubSeq(parts, 1, Len(parts) - 1))
  IN  IF IsThrow(walk) THEN walk
      ELSE IF walk.acc.t # "ref" THEN ThrowsWith(walk.heap)
      ELSE [t |-> "ok",
            heap |-> [walk.heap EXCEPT ![walk.acc.a].o = SetKey(@, lastPart, value)],
            ret |-> obj]

----------------------------------------------------------------------------
(* Transform registries *)

\* The own keys of both registries.
RegisteredTransforms == {"extractOpenAIText", "textToSpeechPayload", "identity"}

\* data?.choices?.[0]?.message?.content || data
extractOpenAIText(data) ==
  LET c == Get(Get(Get(Get(data, "choices"), "0"), "message"), "content")
  IN  IF Truthy(c) THEN c ELSE data

\* chainFetch: { model: "tts-1", voice: "alloy", input: text }
chain_textToSpeechPayload(text) ==
  Obj([model |-> Str("tts-1"), voice |-> Str("alloy"), input |-> text])

\* openFetch: { input: { text }, voice: "alloy", model: "tts-1" }
open_textToSpeechPayload(text) ==
  Obj([input |-> Obj([text |-> text]), voice |-> Str("alloy"), model |-> Str("tts-1")])

\* transformFunctions[name]: an own entry, else what Object.prototype gives.
transformFunctions(name) ==
  IF name \in RegisteredTransforms THEN Fn(name)
  ELSE IF name \in ObjectProto THEN Fn(name)
  ELSE Undef

\* Object.prototype.toString / Object called as a method of the registry.
CallInherited(name, data) ==
  IF name = "toString" THEN Str("[object Object]")
  ELSE IF data.t \in {"undefined", "null"} THEN EmptyObj
  ELSE data

\* transformFunctions[name](data) in chainFetch
chain_callTransform(name, data) ==
  CASE name = "extractOpenAIText"   -> extractOpenAIText(data)
    [] name = "textToSpeechPayload" -> chain_textToSpeechPayload(data)
    [] name = "identity"            -> data
    [] OTHER                        -> CallInherited(name, data)

\* transformFunctions[name](data) in openFetch
open_callTransform(name, data) ==
  CASE name = "extractOpenAIText"   -> extractOpenAIText(data)
    [] name = "textToSpeechPayload" -> open_textToSpeechPayload(data)
    [] name = "identity"            -> data
    [] OTHER                        -> CallInherited(name, data)

\* chainFetch: if (transform.transformFn && transformFunctions[transformFn])
\*   currentData = transformFunctions[transformFn](currentData)
chain_applyTransform(transformFn, data) ==
  IF Truthy(transformFn) /\ Truthy(transformFunctions(transformFn.s))
    THEN chain_callTransform(transformFn.s, data)
  ELSE data

\* openFetch: if (transformFn && transformFunctions[transformFn])
\*   chainedData = transformFunctions[transformFn](chainedData)
open_applyTransform(transformFn, data) ==
  IF Truthy(transformFn) /\ Truthy(transformFunctions(transformFn.s))
    THEN open_callTransform(transformFn.s, data)
  ELSE data

----------------------------------------------------------------------------
(* Content classifier and extractor *)

\* getContentType reporting a body of unnamed bytes as a stream.
getContentType_stream(headers) ==
  LET contentType == IF "content-type" \in DOMAIN headers
                       THEN headers["content-type"] ELSE <<>>
  IN  IF Includes(contentType, <<"application", "/", "json">>)
        THEN [type |-> "json", format |-> Undef]
      ELSE IF Includes(contentType, <<"text", "/">>)
        THEN [type |-> "text", format |-> Undef]
      ELSE [type |-> "stream", format |-> Undef]

\* headers['content-type'] || '' and the ordered substring tests.
getContentType(headers) ==
  LET contentType == IF "content-type" \in DOMAIN headers
                       THEN headers["content-type"] ELSE <<>>
      format == SplitAt(contentType, "/")[2]
  IN  IF Includes(contentType, <<"application", "/", "json">>)
        THEN [type |-> "json", format |-> Undef]
      ELSE IF Includes(contentType, <<"text", "/">>)
        THEN [type |-> "text", format |-> Undef]
      ELSE IF Includes(contentType, <<"image", "/">>)
        THEN [type |-> "image", format |-> Str(format)]
      ELSE IF Includes(contentType, <<"audio", "/">>)
        THEN [type |-> "audio", format |-> Str(format)]
      ELSE IF Includes(contentType, <<"video", "/">>)
        THEN [type |-> "video", format |-> Str(format)]
      ELSE IF Includes(contentType, <<"application", "/", "octet-stream">>)
        THEN [type |-> "binary", format |-> Undef]
      ELSE [type |-> "unknown", format |-> Undef]

\* openFetch's extractMainContent; a non-optional read of a property of
\* null or undefined throws.
extractMainContent(data, contentType) ==
  CASE contentType = "json" ->
         IF Truthy(Get(Get(Get(Get(data, "choices"), "0"), "message"), "content"))
           THEN Get(Get(Get(Get(data, "choices"), "0"), "message"), "content")
         ELSE IF Truthy(Get(data, "content")) THEN Get(data, "content")
         ELSE IF Truthy(Get(data, "data")) THEN Get(data, "data")
         ELSE data
    [] contentType = "text" -> data
    [] contentType \in {"image", "audio", "video", "binary"} ->
         IF data.t \in {"undefined", "null"} THEN Throws("TypeError")
         ELSE Obj([type |-> Str(contentType), data |-> data,
                   size |-> Get(data, "length"), format |-> Get(data, "format")])
    [] contentType = "stream" -> Obj([type |-> Str("stream"), stream |-> data])
    [] OTHER -> data

----------------------------------------------------------------------------
(* JSON serialization *)

RECURSIVE JsonOf(_)
\* The JSON text of v as the value it parses back to: properties holding
\* undefined or a function are dropped, array holes and undefined elements
\* become null, only the index keys of an array are written.
JsonOf(v) ==
  CASE v.t = "object" ->
         LET keep == {k \in DOMAIN v.o : v.o[k].t \notin {"undefined", "function"}}
         IN  Obj([k \in keep |-> JsonOf(v.o[k])])
    [] v.t = "array" ->
         LET n == ArrLen(v.o)
         IN  Arr([k \in {IdxKeys[i] : i \in 1..n} |->
                    IF k \in DOMAIN v.o /\ v.o[k].t \notin {"undefined", "function"}
                      THEN JsonOf(v.o[k]) ELSE Null])
    [] v.t \in {"blob", "arraybuffer"} -> EmptyObj
    [] OTHER -> v

\* JSON.stringify(v): undefined for undefined and functions, else a text.
JSONstringify(v) ==
  IF v.t \in {"undefined", "function"} THEN Undef
  ELSE [t |-> "json", text |-> JsonOf(v)]

----------------------------------------------------------------------------
(* Headers *)

\* A headers object is the sequence of its own [name, value] entries in
\* insertion order; a header value is a token string.

\* { ...headers, [name]: value }: an existing key keeps its place.
SetHeader(headers, name, value) ==
  IF \E j \in 1..Len(headers) : headers[j].name = name
    THEN [j \in 1..Len(headers) |->
            IF headers[j].name = name THEN [name |-> name, value |-> value]
            ELSE headers[j]]
  ELSE Append(headers, [name |-> name, value |-> value])

\* Header names are case-insensitive on the wire.
Lower(name) ==
  CASE name = "Authorization" -> "authorization"
    [] name = "Content-Type"  -> "content-type"
    [] name = "X-Trace"       -> "x-trace"
    [] OTHER                  -> name

RECURSIVE WireValues(_, _)
\* The values of the entries whose name is lname up to case, in order.
WireValues(headers, lname) ==
  IF headers = <<>> THEN <<>>
  ELSE (IF Lower(Head(headers).name) = lname THEN <<Head(headers).value>> ELSE <<>>)
         \o WireValues(Tail(headers), lname)

\* The header list fetch builds from a headers object: every entry is
\* appended under its lower-cased name, and entries of one name are
\* combined in order.
WireHeaders(headers) ==
  [lname \in {Lower(headers[j].name) : j \in 1..Len(headers)} |->
     WireValues(headers, lname)]

\* `Bearer ${accessToken}`
Bearer(accessToken) ==
  <<"Bearer ", IF accessToken.t = "string" THEN accessToken.s ELSE accessToken.t>>

ApplicationJson == <<"application", "/", "json">>

----------------------------------------------------------------------------
(* State *)

VARIABLES
  route,        \* which route handler this invocation runs
  pc,           \* the handler's position
  now,          \* Math.floor(Date.now() / 1000)
  sub,          \* token?.sub of the session token of the request
  user_auth,    \* the caller's row of table user_auth, or Null
  tokens,       \* getValidAccessToken: const tokens
  newTokens,    \* getValidAccessToken: const newTokens
  provider,     \* updateStoredTokens: existingAuth.provider
  accessToken,  \* chainFetch POST: const accessToken
  config,       \* POST: const config
  i,            \* chainFetch POST: the loop index
  responses,    \* chainFetch POST: const responses
  currentData,  \* chainFetch POST: let currentData
  call,         \* makeApiCall: the request being executed and its response
  response,     \* openFetch POST: const response
  sent,         \* every outbound step request issued, in order
  inflight,     \* positions in sent of the requests not yet resolved
  received,     \* the upstream response to each resolved request, in order
  refreshes,    \* number of token refresh requests issued
  writes,       \* number of writes to user_auth
  replies,      \* the responses returned to the caller
  invoked,      \* a direct call of one of the helper functions: its
                \* arguments and, once it returned, its outcome
  other,        \* the locals of a second invocation of the handler that is
                \* suspended at an await while this one runs, or NoOther
  signedOut     \* the sign-out handler has deleted the caller's row

vars == <<route, pc, now, sub, user_auth, tokens, newTokens, provider,
          accessToken, config, i, responses, currentData, call, response,
          sent, inflight, received, refreshes, writes, replies, invoked,
          other, objectPrototype, signedOut>>

authVars == <<user_auth, tokens, newTokens, provider, refreshes, writes>>

runVars == <<config, i, responses, currentData, call, response, sent,
             inflight, received>>

\* An error message: its text, and for an upstream HTTP error its parts.
Msg(text) == [m |-> text]

\* NextResponse.json(body, { status })
Reply(status, body) == [status |-> status, body |-> body]

\* The expiry margin of getValidAccessToken, in seconds.
ExpiryMargin == 300

----------------------------------------------------------------------------
(* Inputs *)

\* Largest number of steps in a chained request.
MaxSteps == 2

\* extractPath: an array of keys.
PathOf(keys) == [t |-> "array", keys |-> keys]

\* injectPath: a dot path.
DotPath(toks) == [t |-> "string", s |-> toks]

OpenAIUrl == <<"https://", "api.openai.com", "/v1/chat/completions">>

OtherUrl == <<"https://", "example.com", "/b">>

\* new URL(url).host
HostOf(url) == url[2]

CallerKey == <<"Bearer ", "caller-key">>

StepOf(url, method, headers, body) ==
  [t |-> "object", url |-> url, method |-> method, headers |-> headers,
   body |-> body, params |-> Undef, responseType |-> Undef, chainConfig |-> Undef]

StepA == StepOf(OtherUrl, "GET", <<>>, Undef)

StepLower ==
  StepOf(OpenAIUrl, "POST", <<[name |-> "authorization", value |-> CallerKey]>>,
         Obj([model |-> Str("m")]))

StepExact ==
  StepOf(OpenAIUrl, "POST", <<[name |-> "Authorization", value |-> CallerKey]>>,
         Undef)

\* A step for another host whose URL names api.openai.com in its path.
StepOtherHost ==
  StepOf(<<"https://", "example.com", "/proxy/", "api.openai.com">>, "GET",
         <<>>, Undef)

ChainSteps == {StepA, StepLower, StepExact}

LinkOf(extractPath, transformFn, injectPath) ==
  [t |-> "object", extractPath |-> extractPath, transformFn |-> transformFn,
   injectPath |-> injectPath]

LinkId == LinkOf(PathOf(<<"data", "id">>), Undef, DotPath(<<"relatedId">>))

LinkTts == LinkOf(Undef, Str("textToSpeechPayload"), DotPath(<<"a", ".", "b">>))

LinkWhole == LinkOf(Undef, Str("identity"), Undef)

ChainLinks == {Undef, LinkId, LinkWhole}

\* The request bodies a caller of the chained endpoint may post: steps and
\* transforms of one length (a shorter transforms array reads as undefined
\* entries), or a body without a steps array.
ChainConfigs ==
  UNION {{[steps |-> st, transforms |-> tr] :
            st \in [1..n -> ChainSteps], tr \in [1..n -> ChainLinks]} :
         n \in 0..MaxSteps}
    \cup {[steps |-> <<StepOtherHost>>, transforms |-> <<Undef>>]}

\* Upstream responses.
Upstream(ok, status, statusText, ctype, text, json) ==
  [net |-> "ok", ok |-> ok, status |-> status, statusText |-> statusText,
   headers |-> [h \in {"content-type"} |-> ctype], text |-> text, json |-> json]

NetworkFailure ==
  [net |-> "fail", ok |-> FALSE, status |-> 0, statusText |-> "",
   headers |-> <<>>, text |-> "", json |-> Undef]

Json200(text, json) == Upstream(TRUE, 200, "OK", ApplicationJson, text, json)

IdBody == Obj([data |-> Obj([id |-> Str("x1")])])

ChatBody ==
  Obj([choices |-> Arr([k \in {"0"} |->
         Obj([message |-> Obj([content |-> Str("hi")])])])])

UpstreamResponses ==
  { NetworkFailure,
    Upstream(FALSE, 500, "Internal Server Error", ApplicationJson,
             "{\"error\":\"oops\"}", Obj([error |-> Str("oops")])),
    Upstream(TRUE, 200, "OK", <<"text", "/", "html">>, "<html>",
             Throws("SyntaxError")),
    Json200("{\"data\":{\"id\":\"x1\"}}", IdBody),
    Json200("{\"choices\":[{\"message\":{\"content\":\"hi\"}}]}", ChatBody),
    Json200("null", Null) }

\* Rows of user_auth the caller may have: a token that is expired, one
\* inside the margin, one exactly at the margin, with or without a refresh
\* token.
StoredRows ==
  {[access_token |-> "at-old", refresh_token |-> rt, expires_at |-> e,
    provider |-> "google"] :
     rt \in {"", "rt-old"}, e \in {900, 1299, 1300}}

\* Answers of the token endpoint: a failure, or new tokens with or without
\* a new refresh token ("" when the answer carries none).
TokenAnswers ==
  {[ok |-> FALSE, access_token |-> "", refresh_token |-> "", expires_in |-> 0],
   [ok |-> TRUE, access_token |-> "at-new", refresh_token |-> "", expires_in |-> 3600],
   [ok |-> TRUE, access_token |-> "at-new", refresh_token |-> "rt-new", expires_in |-> 3600]}

NoCall == [n |-> 0, step |-> Undef, res |-> Undef, data |-> Undef]

\* No helper function is called on its own during a request.
NotInvoked == [fn |-> "none"]

\* No second invocation is in progress.
NoOther == [route |-> "none"]

Init ==
  /\ route \in {"chainFetch", "openFetch"}
  /\ pc = "start"
  /\ now = 1000
  /\ IF route = "chainFetch"
       THEN /\ sub \in {Undef, Str("u1")}
            /\ user_auth \in {Null} \cup StoredRows
       ELSE /\ sub = Undef
            /\ user_auth = Null
  /\ tokens = Null
  /\ newTokens = Null
  /\ provider = ""
  /\ accessToken = Null
  /\ config = Undef
  /\ i = 0
  /\ responses = <<>>
  /\ currentData = Null
  /\ call = NoCall
  /\ response = Undef
  /\ sent = <<>>
  /\ inflight = {}
  /\ received = <<>>
  /\ refreshes = 0
  /\ writes = 0
  /\ replies = <<>>
  /\ invoked = NotInvoked
  /\ other = NoOther
  /\ objectPrototype = <<>>
  /\ signedOut = FALSE

----------------------------------------------------------------------------
(* src/app/utils/auth.ts *)

\* POST_withAccessToken without the check of the token.
POST_withAccessToken_noCheck(tok) ==
  /\ accessToken' = tok
  /\ pc' = "parse"
  /\ UNCHANGED replies

\* chainFetch POST after `const accessToken = await getValidAccessToken(..)`:
\* a 401 when there is no token, else on to reading the request body.
POST_withAccessToken(tok) ==
  /\ accessToken' = tok
  /\ IF ~Truthy(tok)
       THEN /\ replies' = Append(replies,
                 Reply(401, [error |-> Msg("Failed to get valid access token")]))
            /\ pc' = "done"
       ELSE /\ pc' = "parse"
            /\ UNCHANGED replies

\* isExpiringSoon counting a token that expires in exactly 300 seconds as
\* expiring.
isExpiringSoon_inclusive(tok) == tok.expires_at - ExpiryMargin <= now

\* tokens.expires_at - 300 < now
isExpiringSoon(tok) == tok.expires_at - ExpiryMargin < now

\* What getValidAccessToken returns when it does not refresh, or when the
\* refresh gave no new tokens: the stored access token.
UsingExistingToken(tok) == Str(tok.access_token)

\* chainFetch POST: getToken and the check of token?.sub.
POST_getToken ==
  /\ route = "chainFetch"
  /\ pc = "start"
  /\ IF ~Truthy(sub)
       THEN /\ replies' = Append(replies,
                 Reply(401, [error |-> Msg("Authentication required")]))
            /\ pc' = "done"
       ELSE /\ pc' = "getStoredTokens"
            /\ UNCHANGED replies
  /\ UNCHANGED <<invoked, other, objectPrototype, signedOut, route, now, sub, authVars, accessToken, runVars>>

\* getValidAccessToken up to its first request: getStoredTokens and the
\* expiry test.
getStoredTokens ==
  /\ pc = "getStoredTokens"
  /\ \E dbError \in BOOLEAN :
       IF dbError \/ user_auth = Null
         THEN /\ tokens' = Null
              /\ POST_withAccessToken(Null)
         ELSE /\ tokens' = [access_token  |-> user_auth.access_token,
                            refresh_token |-> user_auth.refresh_token,
                            expires_at    |-> user_auth.expires_at]
              /\ IF isExpiringSoon(tokens') /\ tokens'.refresh_token # ""
                   THEN /\ pc' = "refreshGoogleToken"
                        /\ UNCHANGED <<accessToken, replies>>
                   ELSE POST_withAccessToken(UsingExistingToken(tokens'))
  /\ UNCHANGED <<invoked, other, objectPrototype, signedOut, route, now, sub, user_auth, newTokens, provider, refreshes,
                 writes, runVars>>

\* refreshGoogleToken: the request to the token endpoint and its answer;
\* a failure of any kind is caught and gives null, and getValidAccessToken
\* then falls through to the stored token.
refreshGoogleToken ==
  /\ pc = "refreshGoogleToken"
  /\ refreshes' = refreshes + 1
  /\ \E ans \in TokenAnswers :
       IF ~ans.ok
         THEN /\ newTokens' = Null
              /\ POST_withAccessToken(UsingExistingToken(tokens))
         ELSE /\ newTokens' =
                   [access_token  |-> ans.access_token,
                    refresh_token |-> IF ans.refresh_token # ""
                                        THEN ans.refresh_token
                                        ELSE tokens.refresh_token,
                    expires_at    |-> now + ans.expires_in]
              /\ pc' = "updateStoredTokens"
              /\ UNCHANGED <<accessToken, replies>>
  /\ UNCHANGED <<invoked, other, objectPrototype, signedOut, route, now, sub, user_auth, tokens, provider, writes, runVars>>

\* updateStoredTokens: the select of the row's provider.
updateStoredTokens_select ==
  /\ pc = "updateStoredTokens"
  /\ \E fetchError \in BOOLEAN :
       IF fetchError \/ user_auth = Null
         THEN /\ POST_withAccessToken(Null)
              /\ UNCHANGED provider
       ELSE IF user_auth.provider = ""
         THEN /\ POST_withAccessToken(Null)
              /\ UNCHANGED provider
       ELSE /\ provider' = user_auth.provider
            /\ pc' = "upsert"
            /\ UNCHANGED <<accessToken, replies>>
  /\ UNCHANGED <<invoked, other, objectPrototype, signedOut, route, now, sub, user_auth, tokens, newTokens, refreshes,
                 writes, runVars>>

\* updateStoredTokens: the upsert, and the return of getValidAccessToken.
updateStoredTokens_upsert ==
  /\ pc = "upsert"
  /\ \E error \in BOOLEAN :
       IF error
         THEN /\ POST_withAccessToken(Null)
              /\ UNCHANGED <<user_auth, writes>>
         ELSE /\ user_auth' = [access_token  |-> newTokens.access_token,
                               refresh_token |-> newTokens.refresh_token,
                               expires_at    |-> newTokens.expires_at,
                               provider      |-> provider]
              /\ writes' = writes + 1
              /\ POST_withAccessToken(Str(newTokens.access_token))
  /\ UNCHANGED <<invoked, other, objectPrototype, signedOut, route, now, sub, tokens, newTokens, provider, refreshes, runVars>>

\* Sign-out (events.signOut of the NextAuth handler, handleSignOut of
\* useAuth): the delete of the caller's row of user_auth.  A delete that
\* fails is logged and leaves everything as it was.
signOut ==
  /\ Truthy(sub)
  /\ ~signedOut
  /\ user_auth' = Null
  /\ signedOut' = TRUE
  /\ UNCHANGED <<invoked, other, objectPrototype, route, pc, now, sub, tokens,
                 newTokens, provider, refreshes, writes, accessToken, runVars,
                 replies>>

----------------------------------------------------------------------------
(* makeApiCall, common to both routes *)

\* config.<name> of an object that came out of JSON.parse: a property the
\* object does not have is read from Object.prototype.
Field(step, name) ==
  IF step[name] # Undef THEN step[name]
  ELSE IF name \in DOMAIN objectPrototype THEN objectPrototype[name]
  ELSE Undef

\* `${url}?${paramString}` when params is given.
FullUrl(step) ==
  IF Truthy(Field(step, "params"))
    THEN step.url \o <<"?">> \o Field(step, "params").query
  ELSE step.url

\* The request handed to fetch: the headers with the forced content type,
\* and the serialized body when the body is truthy.
RequestOf(step) ==
  [url     |-> FullUrl(step),
   method  |-> step.method,
   headers |-> WireHeaders(SetHeader(step.headers, "Content-Type", ApplicationJson)),
   body    |-> IF Truthy(Field(step, "body"))
                 THEN JSONstringify(Field(step, "body"))
               ELSE Undef]

\* responseType = 'json' by default
ResponseTypeOf(step) ==
  IF Field(step, "responseType").t = "undefined" THEN "json"
  ELSE Field(step, "responseType").s

\* The switch over responseType: what reading the body gives, or a throw.
Decode(responseType, res) ==
  CASE responseType = "text"        -> Str(res.text)
    [] responseType = "blob"        -> [t |-> "blob", text |-> res.text]
    [] responseType = "arrayBuffer" -> [t |-> "arraybuffer", text |-> res.text]
    [] OTHER                        -> res.json

\* IssueFetch sending the request a second time.
IssueFetch_again(n, step) ==
  /\ sent' = Append(Append(sent, [step |-> n, req |-> RequestOf(step)]),
                    [step |-> n, req |-> RequestOf(step)])
  /\ inflight' = inflight \cup {Len(sent) + 2}
  /\ call' = [n |-> Len(sent) + 2, step |-> step, res |-> Undef, data |-> Undef]

\* Issuing the fetch of step number n of the invocation.
IssueFetch(n, step) ==
  /\ sent' = Append(sent, [step |-> n, req |-> RequestOf(step)])
  /\ inflight' = inflight \cup {Len(sent) + 1}
  /\ call' = [n |-> Len(sent) + 1, step |-> step, res |-> Undef, data |-> Undef]

----------------------------------------------------------------------------
(* src/app/api/chainFetch/route.ts *)

\* The map over config.steps: the bearer token for the LLM provider.
chain_addAccessToken(step, tok) ==
  IF Includes(step.url, <<"api.openai.com">>)
    THEN [step EXCEPT !.headers = SetHeader(step.headers, "Authorization", Bearer(tok))]
  ELSE step

\* const transform = config.transforms?.[i]
chain_transformAt(cfg, idx) ==
  IF idx + 1 \in DOMAIN cfg.transforms THEN cfg.transforms[idx + 1] ELSE Undef

\* if (i > 0 && transform && currentData)
chain_linkApplies(idx, transform, data) ==
  idx > 0 /\ Truthy(transform) /\ Truthy(data)

\* The body of that if: extract, transform, inject or replace.  Gives the
\* new step.body and currentData, or a throw from injectAtPath.
chain_applyLink(step, transform, data) ==
  LET extracted == IF Truthy(transform.extractPath)
                     THEN extractByPath(data, transform.extractPath.keys)
                     ELSE data
      transformed == chain_applyTransform(transform.transformFn, extracted)
      target == IF Truthy(Field(step, "body")) THEN Field(step, "body")
                ELSE EmptyObj
      body == IF Truthy(transform.injectPath)
                THEN injectAtPath(target, transform.injectPath.s, transformed)
                ELSE transformed
  IN  [body |-> body, data |-> transformed,
       proto |-> IF Truthy(transform.injectPath)
                   THEN PrototypeAfterInject(target, transform.injectPath.s,
                                             transformed)
                 ELSE objectPrototype]

\* The ApiResponse makeApiCall returns in chainFetch.
chain_ApiResponse(res, data) ==
  [data |-> data, status |-> res.status, statusText |-> res.statusText,
   headers |-> res.headers, simplifiedContent |-> data,
   contentType |-> getContentType(res.headers).type,
   contentFormat |-> getContentType(res.headers).format]

\* chain_catch returning the results gathered so far.
chain_catch_partial(err) ==
  Reply(500, [error |-> err, stack |-> "stack", steps |-> responses])

\* The catch of POST: every thrown error becomes a 500.
chain_catch(err) == Reply(500, [error |-> err, stack |-> "stack"])

\* The success response of POST.
chain_success(results) == Reply(200, [steps |-> results])

\* The bodies a request to the chained endpoint may carry.
ChainPosted ==
  {[kind |-> "malformed", cfg |-> Undef], [kind |-> "nosteps", cfg |-> Undef]}
    \cup {[kind |-> "config", cfg |-> c] : c \in ChainConfigs}

\* await req.json() and the map that adds the access token.
chain_POST_parse ==
  /\ route = "chainFetch"
  /\ pc = "parse"
  /\ \E posted \in ChainPosted :
       CASE posted.kind = "malformed" ->
              /\ replies' = Append(replies, chain_catch(Msg("SyntaxError")))
              /\ pc' = "done"
              /\ UNCHANGED config
         [] posted.kind = "nosteps" ->
              /\ replies' = Append(replies, chain_catch(Msg("TypeError")))
              /\ pc' = "done"
              /\ UNCHANGED config
         [] OTHER ->
              /\ config' = [posted.cfg EXCEPT !.steps =
                              [k \in DOMAIN posted.cfg.steps |->
                                 chain_addAccessToken(posted.cfg.steps[k], accessToken)]]
              /\ pc' = "loop"
              /\ UNCHANGED replies
  /\ UNCHANGED <<invoked, other, objectPrototype, signedOut, route, now, sub, authVars, accessToken, i, responses,
                 currentData, call, response, sent, inflight, received>>

\* chain_POST_step without the await of makeApiCall: the loop goes on to
\* the next step while the request is in flight.
chain_POST_step_noAwait ==
  /\ route = "chainFetch"
  /\ pc = "loop"
  /\ IF i >= Len(config.steps)
       THEN /\ replies' = Append(replies, chain_success(responses))
            /\ pc' = "done"
            /\ UNCHANGED <<config, currentData, call, sent, inflight, i>>
       ELSE /\ IssueFetch(i, config.steps[i + 1])
            /\ i' = i + 1
            /\ pc' = "loop"
            /\ UNCHANGED <<config, currentData, replies>>
  /\ UNCHANGED <<invoked, other, objectPrototype, signedOut, route, now, sub, authVars, accessToken, responses,
                 response, received>>

\* One pass of the for loop up to the await of fetch, or the return after
\* the loop.
chain_POST_step ==
  /\ route = "chainFetch"
  /\ pc = "loop"
  /\ IF i >= Len(config.steps)
       THEN /\ replies' = Append(replies, chain_success(responses))
            /\ pc' = "done"
            /\ UNCHANGED <<config, currentData, call, sent, inflight,
                           objectPrototype>>
       ELSE LET step == config.steps[i + 1]
                transform == chain_transformAt(config, i)
                applies == chain_linkApplies(i, transform, currentData)
                applied == chain_applyLink(step, transform, currentData)
            IN  /\ objectPrototype' = IF applies THEN applied.proto
                                      ELSE objectPrototype
                /\ IF applies /\ IsThrow(applied.body)
                     THEN /\ replies' = Append(replies,
                                               chain_catch(Msg(applied.body.msg)))
                          /\ pc' = "done"
                          /\ UNCHANGED <<config, currentData, call, sent, inflight>>
                   ELSE LET next == IF applies THEN [step EXCEPT !.body = applied.body]
                                    ELSE step
                        IN  /\ config' = [config EXCEPT !.steps[i + 1] = next]
                            /\ currentData' = IF applies THEN applied.data
                                              ELSE currentData
                            /\ IssueFetch(i, next)
                            /\ pc' = "fetch"
                            /\ UNCHANGED replies
  /\ UNCHANGED <<invoked, other, signedOut, route, now, sub, authVars, accessToken,
                 i, responses, response, received>>

\* chain_makeApiCall_fetch without the check of response.ok.
chain_makeApiCall_fetch_noOkCheck ==
  /\ route = "chainFetch"
  /\ pc = "fetch"
  /\ \E res \in UpstreamResponses :
       /\ received' = Append(received, res)
       /\ IF res.net = "fail"
            THEN /\ replies' = Append(replies, chain_catch(Msg("fetch failed")))
                 /\ pc' = "done"
                 /\ inflight' = inflight \ {call.n}
                 /\ UNCHANGED call
          ELSE /\ call' = [call EXCEPT !.res = res]
               /\ pc' = "body"
               /\ UNCHANGED <<replies, inflight>>
  /\ UNCHANGED <<invoked, other, objectPrototype, signedOut, route, now, sub, authVars, accessToken, config, i, responses,
                 currentData, response, sent>>

\* makeApiCall: the fetch resolves or rejects; a non-2xx status throws
\* after the error text was read.
chain_makeApiCall_fetch ==
  /\ route = "chainFetch"
  /\ pc = "fetch"
  /\ \E res \in UpstreamResponses :
       /\ received' = Append(received, res)
       /\ IF res.net = "fail"
            THEN /\ replies' = Append(replies, chain_catch(Msg("fetch failed")))
                 /\ pc' = "done"
                 /\ inflight' = inflight \ {call.n}
                 /\ UNCHANGED call
          ELSE IF ~res.ok
            THEN /\ replies' = Append(replies, chain_catch(
                      [m |-> "HTTP Error", status |-> res.status,
                       statusText |-> res.statusText, details |-> res.text]))
                 /\ pc' = "done"
                 /\ inflight' = inflight \ {call.n}
                 /\ UNCHANGED call
          ELSE /\ call' = [call EXCEPT !.res = res]
               /\ pc' = "body"
               /\ UNCHANGED <<replies, inflight>>
  /\ UNCHANGED <<invoked, other, objectPrototype, signedOut, route, now, sub, authVars, accessToken, config, i, responses,
                 currentData, response, sent>>

\* makeApiCall: the body is read in the declared mode; then the loop pushes
\* the response and keeps its data.
chain_makeApiCall_body ==
  /\ route = "chainFetch"
  /\ pc = "body"
  /\ inflight' = inflight \ {call.n}
  /\ LET mode == ResponseTypeOf(call.step)
         data == Decode(mode, call.res)
     IN  IF IsThrow(data)
           THEN /\ replies' = Append(replies, chain_catch(
                     [m |-> "Failed to parse response", mode |-> mode,
                      cause |-> data.msg]))
                /\ pc' = "done"
                /\ UNCHANGED <<i, responses, currentData>>
           ELSE /\ responses' = Append(responses, chain_ApiResponse(call.res, data))
                /\ currentData' = data
                /\ i' = i + 1
                /\ pc' = "loop"
                /\ UNCHANGED replies
  /\ UNCHANGED <<invoked, other, objectPrototype, signedOut, route, now, sub, authVars, accessToken, config, call,
                 response, sent, received>>

----------------------------------------------------------------------------
(* src/app/api/openFetch/route.ts *)

ChainConfigOf(next, extractPath, transformFn, injectPath) ==
  [t |-> "object", next |-> next, extractPath |-> extractPath,
   transformFn |-> transformFn, injectPath |-> injectPath]

\* A follow-up step that itself carries a chainConfig.
StepNested ==
  [StepOf(OtherUrl, "POST", <<>>, Obj([keep |-> Num(1)])) EXCEPT
     !.chainConfig = ChainConfigOf(StepA, Undef, Undef, Undef)]

OpenChainConfigs ==
  { Undef,
    ChainConfigOf(Undef, Undef, Str("identity"), Undef),
    ChainConfigOf(StepNested, Undef, Str("identity"), Undef),
    ChainConfigOf(StepNested, Undef, Undef, Undef),
    ChainConfigOf(StepNested, PathOf(<<"data", "id">>), Undef, DotPath(<<"relatedId">>)) }

\* Bodies that are present and falsy: 0, false and "".
FalsyBodies == {Num(0), Bool(FALSE), Str("")}

\* A request without a body.
StepNoBody == StepOf(OtherUrl, "POST", <<>>, Undef)

\* A request whose chainConfig injects at a path through `__proto__`.
StepProtoPath ==
  [StepOf(OtherUrl, "POST", <<>>, Obj([q |-> Str("hi")])) EXCEPT
     !.chainConfig = ChainConfigOf(StepNoBody, Undef, Undef,
                                   DotPath(<<"__proto__", ".", "body">>))]

OpenConfigs ==
  {[StepOf(OtherUrl, "POST", <<>>, Obj([q |-> Str("hi")])) EXCEPT
      !.chainConfig = cc, !.responseType = rt] :
     rt \in {Undef, Str("text")}, cc \in OpenChainConfigs}
    \cup {StepNoBody, StepProtoPath}
    \cup {StepOf(OtherUrl, "POST", <<>>, falsy) : falsy \in FalsyBodies}

OpenPosted ==
  {[kind |-> "malformed", cfg |-> Undef]}
    \cup {[kind |-> "config", cfg |-> c] : c \in OpenConfigs}

\* The ApiResponse makeApiCall returns in openFetch.
open_ApiResponse(res, data) ==
  [data |-> data, status |-> res.status, statusText |-> res.statusText,
   headers |-> res.headers,
   simplifiedContent |-> extractMainContent(data, getContentType(res.headers).type),
   contentType |-> getContentType(res.headers).type,
   contentFormat |-> getContentType(res.headers).format,
   chainedResponse |-> Undef]

\* open_catch returning the first step's result with the error.
open_catch_partial(err) == Reply(500, [error |-> err, response |-> response])

\* The catch of POST.
open_catch(err) == Reply(500, [error |-> err])

\* open_HttpError without the status of the upstream response.
open_HttpError_bare(res) == Msg("HTTP Error")

\* new Error(`HTTP Error: ${response.status} - ${response.statusText}`)
open_HttpError(res) ==
  [m |-> "HTTP Error", status |-> res.status, statusText |-> res.statusText]

\* if (config.chainConfig?.next)
open_hasNext(cfg) ==
  Truthy(Field(cfg, "chainConfig")) /\ Truthy(Field(cfg, "chainConfig").next)

\* const chainedData: extract (or the simplified content), then transform
\* ('identity' by default).
open_chainedData(cfg, first) ==
  LET cc == Field(cfg, "chainConfig")
      transformFn == IF cc.transformFn.t = "undefined" THEN Str("identity")
                     ELSE cc.transformFn
      extracted == IF Truthy(cc.extractPath)
                     THEN extractByPath(first.data, cc.extractPath.keys)
                     ELSE first.simplifiedContent
  IN  open_applyTransform(transformFn, extracted)

\* nextConfig.body || {}
open_injectTarget(cfg) ==
  LET next == Field(cfg, "chainConfig").next
  IN  IF Truthy(Field(next, "body")) THEN Field(next, "body") ELSE EmptyObj

\* The body of the follow-up request: the chained data injected into the
\* follow-up's body, or in its place.
open_nextBody(cfg, first) ==
  LET cc == Field(cfg, "chainConfig")
  IN  IF Truthy(cc.injectPath)
        THEN injectAtPath(open_injectTarget(cfg), cc.injectPath.s,
                          open_chainedData(cfg, first))
      ELSE open_chainedData(cfg, first)

\* What that injection leaves in Object.prototype.
open_nextPrototype(cfg, first) ==
  LET cc == Field(cfg, "chainConfig")
  IN  IF open_hasNext(cfg) /\ Truthy(cc.injectPath)
        THEN PrototypeAfterInject(open_injectTarget(cfg), cc.injectPath.s,
                                  open_chainedData(cfg, first))
      ELSE objectPrototype

\* await req.json()
open_POST_parse ==
  /\ route = "openFetch"
  /\ pc = "start"
  /\ \E posted \in OpenPosted :
       IF posted.kind = "malformed"
         THEN /\ replies' = Append(replies, open_catch(Msg("SyntaxError")))
              /\ pc' = "done"
              /\ UNCHANGED config
         ELSE /\ config' = posted.cfg
              /\ pc' = "call"
              /\ UNCHANGED replies
  /\ UNCHANGED <<invoked, other, objectPrototype, signedOut, route, now, sub, authVars, accessToken, i, responses,
                 currentData, call, response, sent, inflight, received>>

\* makeApiCall(config) up to the await of fetch.
open_POST_call ==
  /\ route = "openFetch"
  /\ pc = "call"
  /\ IssueFetch(0, config)
  /\ pc' = "fetch"
  /\ UNCHANGED <<invoked, other, objectPrototype, signedOut, route, now, sub, authVars, accessToken, config, i, responses,
                 currentData, response, received, replies>>

\* makeApiCall: the fetch resolves or rejects; a non-2xx status throws.
open_makeApiCall_fetch ==
  /\ route = "openFetch"
  /\ pc = "fetch"
  /\ \E res \in UpstreamResponses :
       /\ received' = Append(received, res)
       /\ IF res.net = "fail"
            THEN /\ replies' = Append(replies, open_catch(Msg("fetch failed")))
                 /\ pc' = "done"
                 /\ inflight' = inflight \ {call.n}
                 /\ UNCHANGED call
          ELSE IF ~res.ok
            THEN /\ replies' = Append(replies, open_catch(open_HttpError(res)))
                 /\ pc' = "done"
                 /\ inflight' = inflight \ {call.n}
                 /\ UNCHANGED call
          ELSE /\ call' = [call EXCEPT !.res = res]
               /\ pc' = "body"
               /\ UNCHANGED <<replies, inflight>>
  /\ UNCHANGED <<invoked, other, objectPrototype, signedOut, route, now, sub, authVars, accessToken, config, i, responses,
                 currentData, response, sent>>

\* open_makeApiCall_body following the chainConfig of the follow-up step
\* as well.
open_makeApiCall_body_recursive ==
  /\ route = "openFetch"
  /\ pc = "body"
  /\ inflight' = inflight \ {call.n}
  /\ LET data == Decode(ResponseTypeOf(call.step), call.res)
         result == open_ApiResponse(call.res, data)
     IN  IF IsThrow(data)
           THEN /\ replies' = Append(replies, open_catch(Msg(data.msg)))
                /\ pc' = "done"
                /\ UNCHANGED <<response, config>>
         ELSE IF IsThrow(result.simplifiedContent)
           THEN /\ replies' = Append(replies,
                     open_catch(Msg(result.simplifiedContent.msg)))
                /\ pc' = "done"
                /\ UNCHANGED <<response, config>>
         ELSE /\ response' = result
              /\ config' = call.step
              /\ pc' = "chain"
              /\ UNCHANGED replies
  /\ UNCHANGED <<invoked, other, objectPrototype, signedOut, route, now, sub, authVars, accessToken, i, responses,
                 currentData, call, sent, received>>

\* makeApiCall: the body is read and simplified.  After the first call the
\* handler goes on to the chain; after the follow-up it attaches the result
\* and returns.
open_makeApiCall_body ==
  /\ route = "openFetch"
  /\ pc = "body"
  /\ inflight' = inflight \ {call.n}
  /\ LET data == Decode(ResponseTypeOf(call.step), call.res)
         result == open_ApiResponse(call.res, data)
     IN  IF IsThrow(data)
           THEN /\ replies' = Append(replies, open_catch(Msg(data.msg)))
                /\ pc' = "done"
                /\ UNCHANGED response
         ELSE IF IsThrow(result.simplifiedContent)
           THEN /\ replies' = Append(replies,
                     open_catch(Msg(result.simplifiedContent.msg)))
                /\ pc' = "done"
                /\ UNCHANGED response
         ELSE IF call.n = 1
           THEN /\ response' = result
                /\ pc' = "chain"
                /\ UNCHANGED replies
         ELSE /\ response' = [response EXCEPT !.chainedResponse = result]
              /\ replies' = Append(replies, Reply(200, response'))
              /\ pc' = "done"
  /\ UNCHANGED <<invoked, other, objectPrototype, signedOut, route, now, sub, authVars, accessToken, config, i, responses,
                 currentData, call, sent, received>>

\* After the first call: the follow-up request when chainConfig.next is
\* given, else the response.
open_POST_chain ==
  /\ route = "openFetch"
  /\ pc = "chain"
  /\ IF open_hasNext(config)
       THEN LET body == open_nextBody(config, response)
            IN  IF IsThrow(body)
                  THEN /\ replies' = Append(replies, open_catch(Msg(body.msg)))
                       /\ pc' = "done"
                       /\ UNCHANGED <<call, sent, inflight>>
                ELSE /\ IssueFetch(1, [Field(config, "chainConfig").next
                                         EXCEPT !.body = body])
                     /\ pc' = "fetch"
                     /\ UNCHANGED replies
       ELSE /\ replies' = Append(replies, Reply(200, response))
            /\ pc' = "done"
            /\ UNCHANGED <<call, sent, inflight>>
  /\ objectPrototype' = open_nextPrototype(config, response)
  /\ UNCHANGED <<invoked, other, signedOut, route, now, sub, authVars, accessToken,
                 config, i, responses, currentData, response, received>>

----------------------------------------------------------------------------
(* Specification *)

Next ==
  \/ POST_getToken
  \/ getStoredTokens
  \/ refreshGoogleToken
  \/ updateStoredTokens_select
  \/ updateStoredTokens_upsert
  \/ chain_POST_parse
  \/ chain_POST_step
  \/ chain_makeApiCall_fetch
  \/ chain_makeApiCall_body
  \/ open_POST_parse
  \/ open_POST_call
  \/ open_makeApiCall_fetch
  \/ open_makeApiCall_body
  \/ open_POST_chain

Spec == Init /\ [][Next]_vars

----------------------------------------------------------------------------
(* Direct calls of the helper functions of the two route modules *)

\* A call that has not returned yet.
Pending == [t |-> "pending"]

\* A call of helper fn with its arguments.
CallOf(fn, args) == [fn |-> fn, args |-> args, out |-> Pending]

\* Values a response body, or a part of one, may be.
SampleValues ==
  { Undef, Null, Bool(FALSE), Num(0), Num(1), Str(""), Str("hi"), EmptyObj,
    IdBody, ChatBody }

\* Transform names a link may carry: the registered ones, names every
\* object inherits, and a name that is nowhere defined.
TransformNames == RegisteredTransforms \cup ObjectProto \cup {"upperCase"}

TransformCalls ==
  {CallOf(fn, [transformFn |-> Str(name), data |-> data]) :
     fn \in {"chain_applyTransform", "open_applyTransform"},
     name \in TransformNames, data \in SampleValues}

\* Longest path of keys in a direct call of a path utility.
MaxPath == 2

\* Keys of the sample bodies.
PathKeys == {"a", "b", "c", "0"}

\* Key sequences of length lo..MaxPath.
KeyPaths(lo) == UNION {[1..n -> PathKeys] : n \in lo..MaxPath}

RECURSIVE Dotted(_)
\* keys.join('.')
Dotted(keys) ==
  IF Len(keys) <= 1 THEN keys
  ELSE <<Head(keys), ".">> \o Dotted(Tail(keys))

AB1 == Obj([a |-> Obj([b |-> Num(1)])])

\* Mappings whose values are mappings, sequences and primitives.
SampleMappings ==
  { EmptyObj, AB1, IdBody,
    Obj([a |-> Num(1)]),
    Obj([a |-> Str("s"), c |-> Num(2)]),
    Obj([a |-> Null, c |-> Num(2)]),
    Obj([a |-> EmptyObj, b |-> Num(0)]),
    Obj([a |-> Arr([k \in {"0"} |-> AB1])]) }

ExtractCalls ==
  {CallOf("extractByPath", [data |-> data, path |-> path]) :
     data \in SampleValues \cup SampleMappings, path \in KeyPaths(0)}

\* The target of a call of injectAtPath is a fresh copy of a mapping.
InjectCalls ==
  {CallOf("injectAtPath",
          [heap   |-> Store(Store(<<>>, m).heap, value).heap,
           obj    |-> Store(<<>>, m).v,
           path   |-> Dotted(keys),
           value  |-> Store(Store(<<>>, m).heap, value).v]) :
     m \in SampleMappings, keys \in KeyPaths(1),
     value \in {Str("hi"), Num(0), Obj([k |-> Num(7)])}}

\* Media types <top>/<sub>.
MediaTypes ==
  {<<top, "/", subtype>> :
     top \in {"application", "text", "image", "audio", "video"},
     subtype \in {"json", "plain", "png", "mpeg", "mp4", "octet-stream", "pdf"}}

\* The parameters that may follow a media type.
MediaParams == {<<>>, <<";", " charset=utf-8">>}

\* Values of a content-type header: the empty string, a media type with
\* or without parameters, and two media types combined in one value.
ContentTypes ==
  {<<>>}
    \cup {m \o ps : m \in MediaTypes, ps \in MediaParams}
    \cup {m1 \o <<", ">> \o m2 : m1 \in MediaTypes, m2 \in MediaTypes}

\* Header mappings of a response: Object.fromEntries(response.headers).
HeaderMappings ==
  {<<>>, [h \in {"content-length"} |-> <<"2">>]}
    \cup {[h \in {"content-type"} |-> ct] : ct \in ContentTypes}

ClassifyCalls ==
  {CallOf("getContentType", [headers |-> h]) : h \in HeaderMappings}

\* Decoded bodies with and without the fields the extractor looks for.
SampleBodies ==
  SampleValues \cup
  { Obj([foo |-> Num(1)]),
    Obj([content |-> Str("c"), data |-> Num(5)]),
    Obj([content |-> Str("")]),
    Obj([content |-> Num(0), data |-> Obj([id |-> Num(2)])]),
    Obj([data |-> Num(0)]),
    Obj([data |-> Null, error |-> Str("e")]),
    Obj([choices |-> Arr(<<>>), content |-> Str("c")]),
    Arr([k \in {"0"} |-> Num(1)]) }

\* The members of type ContentType.
ContentKinds ==
  {"text", "json", "image", "audio", "video", "binary", "stream", "unknown"}

SimplifyCalls ==
  {CallOf("extractMainContent", [data |-> data, contentType |-> kind]) :
     data \in SampleBodies, kind \in ContentKinds}

HelperCalls ==
  TransformCalls \cup ExtractCalls \cup InjectCalls \cup ClassifyCalls
    \cup SimplifyCalls

\* No request is being handled; one helper is about to be called.
HelperInit ==
  /\ invoked \in HelperCalls
  /\ route = "none"
  /\ pc = "done"
  /\ now = 1000
  /\ sub = Undef
  /\ user_auth = Null
  /\ tokens = Null
  /\ newTokens = Null
  /\ provider = ""
  /\ accessToken = Null
  /\ config = Undef
  /\ i = 0
  /\ responses = <<>>
  /\ currentData = Null
  /\ call = NoCall
  /\ response = Undef
  /\ sent = <<>>
  /\ inflight = {}
  /\ received = <<>>
  /\ refreshes = 0
  /\ writes = 0
  /\ replies = <<>>
  /\ other = NoOther
  /\ objectPrototype = <<>>
  /\ signedOut = FALSE

\* The pending call of fn returns out.
Returns(fn, out) ==
  /\ invoked.fn = fn
  /\ invoked.out = Pending
  /\ invoked' = [invoked EXCEPT !.out = out]
  /\ UNCHANGED <<route, pc, now, sub, authVars, accessToken, runVars, replies,
                 other, objectPrototype, signedOut>>

call_chain_applyTransform ==
  /\ invoked.fn = "chain_applyTransform"
  /\ Returns("chain_applyTransform",
             chain_applyTransform(invoked.args.transformFn, invoked.args.data))

call_open_applyTransform ==
  /\ invoked.fn = "open_applyTransform"
  /\ Returns("open_applyTransform",
             open_applyTransform(invoked.args.transformFn, invoked.args.data))

call_extractByPath ==
  /\ invoked.fn = "extractByPath"
  /\ Returns("extractByPath", extractByPath(invoked.args.data, invoked.args.path))

call_injectAtPath ==
  /\ invoked.fn = "injectAtPath"
  /\ Returns("injectAtPath",
             RefInjectAtPath(invoked.args.heap, invoked.args.obj,
                             invoked.args.path, invoked.args.value))

call_getContentType ==
  /\ invoked.fn = "getContentType"
  /\ Returns("getContentType", getContentType(invoked.args.headers))

call_extractMainContent ==
  /\ invoked.fn = "extractMainContent"
  /\ Returns("extractMainContent",
             extractMainContent(invoked.args.data, invoked.args.contentType))

HelperNext ==
  \/ call_chain_applyTransform
  \/ call_open_applyTransform
  \/ call_extractByPath
  \/ call_injectAtPath
  \/ call_getContentType
  \/ call_extractMainContent

HelperSpec == HelperInit /\ [][HelperNext]_vars

----------------------------------------------------------------------------
(* Two invocations of the single-hop endpoint in one server process *)

\* The variables local to the invocation that is running.
Locals ==
  [route |-> route, pc |-> pc, sub |-> sub, tokens |-> tokens,
   newTokens |-> newTokens, provider |-> provider, accessToken |-> accessToken,
   config |-> config, i |-> i, responses |-> responses,
   currentData |-> currentData, call |-> call, response |-> response,
   sent |-> sent, inflight |-> inflight, received |-> received,
   refreshes |-> refreshes, writes |-> writes, replies |-> replies]

\* Both invocations have just entered POST of openFetch.
PairInit ==
  /\ route = "openFetch"
  /\ pc = "start"
  /\ now = 1000
  /\ sub = Undef
  /\ user_auth = Null
  /\ tokens = Null
  /\ newTokens = Null
  /\ provider = ""
  /\ accessToken = Null
  /\ config = Undef
  /\ i = 0
  /\ responses = <<>>
  /\ currentData = Null
  /\ call = NoCall
  /\ response = Undef
  /\ sent = <<>>
  /\ inflight = {}
  /\ received = <<>>
  /\ refreshes = 0
  /\ writes = 0
  /\ replies = <<>>
  /\ invoked = NotInvoked
  /\ other = Locals
  /\ objectPrototype = <<>>
  /\ signedOut = FALSE

\* The running invocation is suspended at an await and the event loop
\* resumes the other one.
Switch ==
  /\ other.route # "none"
  /\ other' = Locals
  /\ route' = other.route
  /\ pc' = other.pc
  /\ sub' = other.sub
  /\ tokens' = other.tokens
  /\ newTokens' = other.newTokens
  /\ provider' = other.provider
  /\ accessToken' = other.accessToken
  /\ config' = other.config
  /\ i' = other.i
  /\ responses' = other.responses
  /\ currentData' = other.currentData
  /\ call' = other.call
  /\ response' = other.response
  /\ sent' = other.sent
  /\ inflight' = other.inflight
  /\ received' = other.received
  /\ refreshes' = other.refreshes
  /\ writes' = other.writes
  /\ replies' = other.replies
  /\ UNCHANGED <<now, user_auth, invoked, objectPrototype, signedOut>>

PairNext ==
  \/ open_POST_parse
  \/ open_POST_call
  \/ open_makeApiCall_fetch
  \/ open_makeApiCall_body
  \/ open_POST_chain
  \/ Switch

PairSpec == PairInit /\ [][PairNext]_vars

----------------------------------------------------------------------------
(* getValidAccessToken in two invocations of the chained endpoint by one *)
(* user, with a concurrent sign-out                                      *)

\* Both invocations have just entered POST of chainFetch.
AuthInit ==
  /\ route = "chainFetch"
  /\ pc = "start"
  /\ now = 1000
  /\ sub \in {Undef, Str("u1")}
  /\ user_auth \in {Null} \cup StoredRows
  /\ tokens = Null
  /\ newTokens = Null
  /\ provider = ""
  /\ accessToken = Null
  /\ config = Undef
  /\ i = 0
  /\ responses = <<>>
  /\ currentData = Null
  /\ call = NoCall
  /\ response = Undef
  /\ sent = <<>>
  /\ inflight = {}
  /\ received = <<>>
  /\ refreshes = 0
  /\ writes = 0
  /\ replies = <<>>
  /\ invoked = NotInvoked
  /\ other = Locals
  /\ objectPrototype = <<>>
  /\ signedOut = FALSE

AuthNext ==
  \/ POST_getToken
  \/ getStoredTokens
  \/ refreshGoogleToken
  \/ updateStoredTokens_select
  \/ updateStoredTokens_upsert
  \/ signOut
  \/ Switch

AuthSpec == AuthInit /\ [][AuthNext]_vars

----------------------------------------------------------------------------
(* Properties *)

Chained == route = "chainFetch"

SingleHop == route = "openFetch"

Replied == replies # <<>>

\* The number of StepResults a response carries.
StepResultsIn(reply) ==
  IF "steps" \in DOMAIN reply.body THEN Len(reply.body.steps) ELSE 0

\* The n-th outbound call failed: in transport, by its status, or when its
\* body was read in the mode of its step.
FailedCall(n, step) ==
  \/ received[n].net = "fail"
  \/ ~received[n].ok
  \/ IsThrow(Decode(ResponseTypeOf(step), received[n]))

\* The step of the chained request that the n-th outbound call executes.
ChainStepOf(n) == config.steps[sent[n].step + 1]

\* C1: in the chained endpoint, when transforms[i] is present and
\* steps[i+1] exists, the body sent for steps[i+1] is the result of
\* applying transforms[i] (extract, transform, inject) to the response of
\* steps[i].  Stated on the step that issues a request, where the loop
\* index i counts the steps already executed, so that the link in question
\* is the entry i-1 of transforms and the response is responses[i]; and
\* stated for a response whose body is truthy, where the guard of the loop
\* on currentData plays no part.
C1_LinkGovernsNextStep ==
  [][(/\ Chained
      /\ pc = "loop"
      /\ Len(sent') = Len(sent) + 1
      /\ i >= 1
      /\ Truthy(chain_transformAt(config, i - 1))
      /\ Truthy(responses[i].data)
      /\ ~IsThrow(chain_applyLink(config.steps[i + 1],
                    chain_transformAt(config, i - 1), responses[i].data).body))
     => sent'[Len(sent')].req.body =
          JSONstringify(chain_applyLink(config.steps[i + 1],
             chain_transformAt(config, i - 1), responses[i].data).body)]_vars

\* C2: a chained invocation with N steps answers either with exactly N
\* StepResults, the k-th being the result of the k-th step in execution
\* order, or with an error response that carries no StepResult.
C2_AllOrNothing ==
  Chained =>
    \A r \in 1..Len(replies) :
      LET reply == replies[r]
      IN  IF reply.status = 200
            THEN /\ StepResultsIn(reply) = Len(config.steps)
                 /\ Len(sent) = Len(config.steps)
                 /\ \A k \in 1..Len(config.steps) :
                      /\ sent[k].step = k - 1
                      /\ sent[k].req.url = FullUrl(config.steps[k])
                      /\ reply.body.steps[k] =
                           chain_ApiResponse(received[k],
                             Decode(ResponseTypeOf(config.steps[k]), received[k]))
          ELSE StepResultsIn(reply) = 0

\* A chained invocation failed after at least one step had succeeded.
C2_Witness ==
  /\ Chained
  /\ pc = "done"
  /\ Replied
  /\ replies[1].status = 500
  /\ Len(responses) >= 1
  /\ Len(responses) < Len(config.steps)

\* C3: in the chained endpoint, once the outbound call of a step has
\* failed (non-2xx status, transport failure, undecodable body), no request
\* for a later step is issued and the invocation ends with an error
\* response.
C3_FailureStopsChain ==
  Chained =>
    \A n \in 1..Len(received) :
      FailedCall(n, ChainStepOf(n)) =>
        /\ Len(sent) = n
        /\ pc \in {"body", "done"}
        /\ pc = "done" => (Len(replies) = 1 /\ replies[1].status = 500)

\* A step failed while later steps were still to run.
C3_Witness ==
  /\ Chained
  /\ pc = "done"
  /\ \E n \in 1..Len(received) :
       /\ FailedCall(n, ChainStepOf(n))
       /\ sent[n].step + 1 < Len(config.steps)

\* C4: the steps of one invocation run strictly in sequence: at most one
\* outbound request is in flight, it is the last one issued, and the
\* request of a step is issued only after the responses of all earlier
\* steps were received and decoded.
C4_Sequential ==
  /\ Cardinality(inflight) <= 1
  /\ inflight \subseteq {Len(sent)}
  /\ Len(sent) <= Len(received) + 1
  /\ inflight # {} => pc \in {"fetch", "body"}
  /\ Chained =>
       /\ Len(sent) <= Len(responses) + 1
       /\ \A n \in 1..Len(sent) : sent[n].step = n - 1
       /\ inflight # {} => Len(responses) = Len(sent) - 1
  /\ SingleHop =>
       /\ \A n \in 1..Len(sent) : sent[n].step = n - 1
       /\ Len(sent) = 2 => (response # Undef /\ Len(received) >= 1)
       /\ (Len(sent) = 2 /\ inflight # {}) => response.chainedResponse = Undef

\* The request of the second step is in flight.
C4_Witness ==
  /\ Chained
  /\ Len(sent) = 2
  /\ inflight = {2}
  /\ Len(responses) = 1

\* C5: in the chained endpoint, without a session subject the response is
\* 401 "Authentication required", without an access token it is 401
\* "Failed to get valid access token", and in both cases no outbound step
\* request is ever issued.
C5_Unauthenticated ==
  Chained =>
    /\ ~Truthy(sub) =>
         /\ sent = <<>>
         /\ pc \in {"start", "done"}
         /\ pc = "done" =>
              replies = <<Reply(401, [error |-> Msg("Authentication required")])>>
    /\ (Truthy(sub) /\ ~Truthy(accessToken)) =>
         /\ sent = <<>>
         /\ pc \in {"start", "getStoredTokens", "refreshGoogleToken",
                    "updateStoredTokens", "upsert", "done"}
         /\ pc = "done" =>
              replies = <<Reply(401,
                            [error |-> Msg("Failed to get valid access token")])>>

\* The user has a session but no stored row: 401 without any request.
C5_Witness ==
  /\ Chained
  /\ Truthy(sub)
  /\ user_auth = Null
  /\ pc = "done"
  /\ replies = <<Reply(401, [error |-> Msg("Failed to get valid access token")])>>

\* C6: when the stored access token is expired or expires within the
\* margin and no new tokens were obtained (the refresh failed, or no
\* refresh token is stored), getValidAccessToken yields no token and the
\* chained endpoint answers 401 without executing a step.
C6_UnrefreshableIs401 ==
  (/\ Chained
   /\ tokens # Null
   /\ isExpiringSoon(tokens)
   /\ newTokens = Null
   /\ pc # "refreshGoogleToken")
  => /\ ~Truthy(accessToken)
     /\ sent = <<>>
     /\ pc = "done"
     /\ replies = <<Reply(401, [error |-> Msg("Failed to get valid access token")])>>

\* C7: in the chained endpoint every request to host api.openai.com is
\* sent with the Authorization header "Bearer <accessToken>", whatever
\* Authorization header the caller supplied for the step.
C7_BearerInjected ==
  Chained =>
    \A n \in 1..Len(sent) :
      HostOf(sent[n].req.url) = "api.openai.com" =>
        /\ "authorization" \in DOMAIN sent[n].req.headers
        /\ sent[n].req.headers["authorization"] = <<Bearer(accessToken)>>

\* The follow-up of the single-hop endpoint replaces the whole body with
\* the first step's simplified content: next is given, no injectPath, no
\* extractPath, and the transform is identity (named or by default).
PlainFollowUp ==
  /\ SingleHop
  /\ config # Undef
  /\ open_hasNext(config)
  /\ ~Truthy(config.chainConfig.injectPath)
  /\ ~Truthy(config.chainConfig.extractPath)
  /\ config.chainConfig.transformFn \in {Undef, Str("identity")}

\* C8: in the single-hop endpoint with chainConfig.next and no injectPath,
\* the first step's simplified content, whatever its value, is the whole
\* body of the second request; the success response is the first
\* StepResponse with chainedResponse set to the second, and chainedResponse
\* is present exactly when chainConfig.next was given.
C8_ContentBecomesBody ==
  /\ (PlainFollowUp /\ Len(sent) = 2) =>
       sent[2].req.body = JSONstringify(response.simplifiedContent)
  /\ (SingleHop /\ Replied /\ replies[1].status = 200) =>
       /\ (replies[1].body.chainedResponse # Undef) <=> open_hasNext(config)
       /\ replies[1].body = response
       /\ open_hasNext(config) =>
            replies[1].body.chainedResponse =
              open_ApiResponse(received[2],
                Decode(ResponseTypeOf(config.chainConfig.next), received[2]))

\* C9: in the single-hop endpoint a failure of the first or of the
\* follow-up call gives a 500 whose body is exactly {error}; the first
\* step's result is not part of it.
C9_FailureIs500 ==
  SingleHop =>
    /\ \A r \in 1..Len(replies) :
         \/ replies[r].status = 200
         \/ /\ replies[r].status = 500
            /\ DOMAIN replies[r].body = {"error"}
            /\ "m" \in DOMAIN replies[r].body.error
    /\ \A n \in 1..Len(received) :
         (FailedCall(n, call.step) /\ n = Len(received) /\ pc = "done") =>
           /\ Len(replies) = 1
           /\ replies[1].status = 500
           /\ DOMAIN replies[1].body = {"error"}

\* The follow-up call failed after the first had succeeded.
C9_Witness ==
  /\ SingleHop
  /\ pc = "done"
  /\ Len(received) = 2
  /\ FailedCall(2, call.step)
  /\ response # Undef
  /\ replies[1].status = 500

\* C10: the single-hop endpoint issues at most two outbound calls: the
\* first step and, only when chainConfig.next is given and the first step
\* succeeded, one follow-up to next; a chainConfig inside next starts no
\* third call.
C10_AtMostTwoCalls ==
  SingleHop =>
    /\ Len(sent) <= 2
    /\ Len(sent) >= 1 => sent[1].req = RequestOf(config)
    /\ Len(sent) = 2 =>
         /\ open_hasNext(config)
         /\ response # Undef
         /\ ~FailedCall(1, config)
         /\ sent[2].req.url = FullUrl(config.chainConfig.next)
    /\ (pc = "done" /\ response # Undef /\ open_hasNext(config)
          /\ ~IsThrow(open_nextBody(config, response))) => Len(sent) = 2

\* A follow-up that carries its own chainConfig was executed and the
\* invocation returned.
C10_Witness ==
  /\ SingleHop
  /\ pc = "done"
  /\ Len(sent) = 2
  /\ Truthy(config.chainConfig.next.chainConfig)
  /\ replies[1].status = 200

\* The simplified content the Content Extractor gives for a StepResult.
ExtractedContentOf(result) == extractMainContent(result.data, result.contentType)

\* The input of a link after a StepResult: what the extract path selects in
\* the raw body when the link has one, else the simplified content.
LinkInputOf(link, result) ==
  IF Truthy(link.extractPath) THEN result.data ELSE ExtractedContentOf(result)

\* C11: in both endpoints a link with an extract path resolves the path
\* against the raw body of the previous StepResult, and a link without one
\* takes the previous step's simplified content as the input of the
\* transform.  Stated on the step that issues the follow-up request, with
\* the link the handler applies there: the body sent is the one built from
\* that input.
C11_LinkInput ==
  [][(/\ (/\ Chained
          /\ pc = "loop"
          /\ Len(sent') = Len(sent) + 1
          /\ chain_linkApplies(i, chain_transformAt(config, i), currentData))
         => (LET link == chain_transformAt(config, i)
                 step == config.steps[i + 1]
                 built == chain_applyLink(step, link, LinkInputOf(link, responses[i]))
             IN  sent'[Len(sent')].req.body =
                   RequestOf([step EXCEPT !.body = built.body]).body)
      /\ (/\ SingleHop
          /\ pc = "chain"
          /\ Len(sent') = Len(sent) + 1)
         => (LET cc == config.chainConfig
                 first == [response EXCEPT
                             !.simplifiedContent = ExtractedContentOf(response)]
                 body == open_nextBody(config, first)
             IN  sent'[Len(sent')].req.body =
                   RequestOf([cc.next EXCEPT !.body = body]).body))]_vars

\* C12: in the chained endpoint the simplifiedContent of every StepResult
\* is the Content Extractor's result for its decoded body and classified
\* kind, which is the value the single-hop endpoint computes for the same
\* upstream response.
C12_ChainedSimplified ==
  Chained =>
    \A k \in 1..Len(responses) :
      /\ responses[k].simplifiedContent = ExtractedContentOf(responses[k])
      /\ responses[k].simplifiedContent =
           open_ApiResponse(received[k], responses[k].data).simplifiedContent

\* The helper fn was called and has returned.
Returned(fn) == invoked.fn = fn /\ invoked.out # Pending

\* C13: a transform name that is not one of the registered built-ins,
\* names that every object inherits such as "toString" and "constructor"
\* included, leaves the chained value unchanged and raises no error, in
\* both endpoints.
C13_UnknownIsIdentity ==
  (/\ Returned("chain_applyTransform") \/ Returned("open_applyTransform")
   /\ invoked.args.transformFn.s \notin RegisteredTransforms)
  => invoked.out = invoked.args.data

\* The value of the target of a returned call of injectAtPath, before and
\* after the call, and the value of what the call returned.
TargetBefore == Deref(invoked.args.heap, invoked.args.obj)

TargetAfter == Deref(invoked.out.heap, invoked.args.obj)

InjectResult == Deref(invoked.out.heap, invoked.out.ret)

InjectedValue == Deref(invoked.args.heap, invoked.args.value)

\* The two descriptions of injectAtPath, by value and by reference, agree.
InjectAgrees ==
  Returned("injectAtPath") =>
    LET byValue == injectAtPath(TargetBefore, invoked.args.path, InjectedValue)
    IN  IF IsThrow(invoked.out) THEN IsThrow(byValue)
        ELSE byValue = InjectResult

\* C14: path round-trip.  For a copy of any mapping, any dot path and any
\* value, injectAtPath does not raise, and extractByPath of its result
\* along the split path gives the value back.
C14_RoundTrip ==
  Returned("injectAtPath") =>
    /\ ~IsThrow(invoked.out)
    /\ extractByPath(InjectResult, SplitPath(invoked.args.path)) = InjectedValue

\* The node that k segments of a path lead to in mapping m.
NodeAt(m, parts, k) == extractByPath(m, SubSeq(parts, 1, k))

\* The intermediate segments of a path that a walk through mapping m finds
\* missing: the node before them is there and has no such key.
MissingSegments(m, parts) ==
  {k \in 1..(Len(parts) - 1) :
     /\ NodeAt(m, parts, k - 1).t \in {"object", "array"}
     /\ parts[k] \notin DOMAIN NodeAt(m, parts, k - 1).o}

LacksKey(v, key) == v.t \notin {"object", "array"} \/ key \notin DOMAIN v.o

ClassifiedKinds == {"json", "text", "image", "audio", "video", "binary", "unknown"}

\* C17: the Content Classifier is total: for every header mapping, one
\* without a content-type entry included, it returns without failing
\* exactly one of the seven kinds json, text, image, audio, video, binary,
\* unknown, and never stream.
C17_ClassifierTotal ==
  Returned("getContentType") =>
    /\ DOMAIN invoked.out = {"type", "format"}
    /\ invoked.out.type \in ClassifiedKinds
    /\ invoked.out.type # "stream"
    /\ "content-type" \notin DOMAIN invoked.args.headers =>
         invoked.out.type = "unknown"

\* A header mapping without a content-type entry was classified.
C17_Witness ==
  /\ Returned("getContentType")
  /\ invoked.args.headers = [h \in {"content-length"} |-> <<"2">>]
  /\ invoked.out.type = "unknown"

\* The substring tests of the classifier in their order.
ClassifierTests ==
  << [needle |-> <<"application", "/", "json">>,         kind |-> "json"],
     [needle |-> <<"text", "/">>,                        kind |-> "text"],
     [needle |-> <<"image", "/">>,                       kind |-> "image"],
     [needle |-> <<"audio", "/">>,                       kind |-> "audio"],
     [needle |-> <<"video", "/">>,                       kind |-> "video"],
     [needle |-> <<"application", "/", "octet-stream">>, kind |-> "binary"] >>

\* The content-type value of the classified header mapping.
ClassifiedValue ==
  IF "content-type" \in DOMAIN invoked.args.headers
    THEN invoked.args.headers["content-type"] ELSE <<>>

\* C18: the classifier applies its substring tests in the order
\* application/json, text/, image/, audio/, video/,
\* application/octet-stream and the first match decides the kind;
\* "application/json; charset=utf-8" is json; and for a content type
\* image/<sub>, audio/<sub> or video/<sub>, with or without parameters
\* after a semicolon, the kind is image, audio or video and the format is
\* exactly <sub>.
C18_OrderedTests ==
  Returned("getContentType") =>
    LET ct == ClassifiedValue
        matching == {k \in 1..Len(ClassifierTests) :
                       Includes(ct, ClassifierTests[k].needle)}
    IN  /\ \A k \in matching :
             (\A j \in matching : k <= j) =>
               invoked.out.type = ClassifierTests[k].kind
        /\ matching = {} => invoked.out.type = "unknown"
        /\ ct = <<"application", "/", "json", ";", " charset=utf-8">> =>
             invoked.out.type = "json"
        /\ \A m \in MediaTypes, ps \in MediaParams :
             (ct = m \o ps /\ m[1] \in {"image", "audio", "video"}) =>
               /\ invoked.out.type = m[1]
               /\ invoked.out.format = Str(<<m[3]>>)

\* C19: for the json kind the Content Extractor returns what the first
\* matching heuristic gives: the chat-completion message content at
\* choices[0].message.content; else the content field whenever the body
\* has one; else the data field whenever the body has one; else the body
\* unchanged.  So {foo:1} gives {foo:1} and
\* {choices:[{message:{content:"hi"}}]} gives "hi".
C19_JsonHeuristics ==
  (Returned("extractMainContent") /\ invoked.args.contentType = "json") =>
    LET data == invoked.args.data
        chat == extractByPath(data, <<"choices", "0", "message", "content">>)
    IN  /\ invoked.out =
             (IF chat # Undef THEN chat
              ELSE IF ~LacksKey(data, "content") THEN data.o["content"]
              ELSE IF ~LacksKey(data, "data") THEN data.o["data"]
              ELSE data)
        /\ data = Obj([foo |-> Num(1)]) => invoked.out = data
        /\ data = ChatBody => invoked.out = Str("hi")

\* The upstream response to the n-th outbound call had a non-2xx status.
UpstreamError(n) == received[n].net = "ok" /\ ~received[n].ok

\* The positions of the chained handler, each the guard of one of its
\* steps, and the position after its return.
ChainedPositions ==
  {"start", "getStoredTokens", "refreshGoogleToken", "updateStoredTokens",
   "upsert", "parse", "loop", "fetch", "body", "done"}

\* The same for the single-hop handler.
SingleHopPositions == {"start", "call", "fetch", "body", "chain", "done"}

\* C20: an invocation of either endpoint ends with exactly one response.
\* The chained endpoint answers 200 {steps}, 401 {error} with one of the
\* two authentication messages, or 500 {error, stack}; the single-hop
\* endpoint answers 200 or 500 {error}.  After an upstream non-2xx status
\* the answer is a 500 whose error carries the upstream status code and
\* status text.  Until it has answered the handler is at one of its
\* steps, and a malformed request body or a missing steps array ends in a
\* 500 as well.
C20_OneResponse ==
  /\ Len(replies) <= 1
  /\ pc = "done" <=> Len(replies) = 1
  /\ pc \in (IF Chained THEN ChainedPositions ELSE SingleHopPositions)
  /\ \A r \in 1..Len(replies) :
       IF Chained
         THEN \/ /\ replies[r].status = 200
                 /\ DOMAIN replies[r].body = {"steps"}
              \/ /\ replies[r].status = 401
                 /\ replies[r].body \in
                      {[error |-> Msg("Authentication required")],
                       [error |-> Msg("Failed to get valid access token")]}
              \/ /\ replies[r].status = 500
                 /\ DOMAIN replies[r].body = {"error", "stack"}
         ELSE \/ /\ replies[r].status = 200
                 /\ replies[r].body = response
              \/ /\ replies[r].status = 500
                 /\ DOMAIN replies[r].body = {"error"}
  /\ (pc = "done" /\ config = Undef /\ (SingleHop \/ Truthy(accessToken))) =>
       replies[1].status = 500
  /\ \A n \in 1..Len(received) :
       UpstreamError(n) =>
         /\ n = Len(received)
         /\ pc = "done"
         /\ replies[1].status = 500
         /\ {"status", "statusText"} \subseteq DOMAIN replies[1].body.error
         /\ replies[1].body.error.m = "HTTP Error"
         /\ replies[1].body.error.status = received[n].status
         /\ replies[1].body.error.statusText = received[n].statusText

\* The follow-up call of the single-hop endpoint was answered with a
\* non-2xx status.
C20_Witness ==
  /\ SingleHop
  /\ pc = "done"
  /\ Len(received) = 2
  /\ UpstreamError(2)
  /\ replies[1].status = 500

\* The last upstream response had a 2xx status and its body could not be
\* read in the mode of its step.
DecodeFailed ==
  /\ pc = "done"
  /\ received # <<>>
  /\ received[Len(received)].net = "ok"
  /\ received[Len(received)].ok
  /\ IsThrow(Decode(ResponseTypeOf(call.step), received[Len(received)]))

\* C21: in both endpoints, when reading the body of a successful response
\* in the declared mode of its step fails, the invocation ends with an
\* error whose message names that mode.
C21_ParseErrorNamesMode ==
  DecodeFailed =>
    /\ Len(replies) = 1
    /\ replies[1].status = 500
    /\ "mode" \in DOMAIN replies[1].body.error
    /\ replies[1].body.error.mode = ResponseTypeOf(call.step)

\* C22: no retries.  Within one invocation the outbound request of each
\* step is issued at most once, whatever the outcome of that request or of
\* another step, and the token refresh is attempted at most once.
C22_NoRetries ==
  /\ \A m, n \in 1..Len(sent) : sent[m].step = sent[n].step => m = n
  /\ Replied => Len(sent) = Len(received)
  /\ Chained /\ config # Undef => Len(sent) <= Len(config.steps)
  /\ refreshes <= 1
  /\ (pc = "done" /\ tokens # Null /\ isExpiringSoon(tokens)
        /\ tokens.refresh_token # "") => refreshes = 1

\* The refresh failed and later a step failed; the invocation has ended.
C22_Witness ==
  /\ Chained
  /\ pc = "done"
  /\ refreshes = 1
  /\ newTokens = Null
  /\ received # <<>>
  /\ FailedCall(Len(received), call.step)
  /\ Len(sent) < Len(config.steps)

\* The serialized body of the first request of an invocation that runs
\* alone: the one of its own config.
OwnBody(cfg) == IF Truthy(cfg.body) THEN JSONstringify(cfg.body) ELSE Undef

\* C23: two invocations of the single-hop endpoint are independent: in
\* every interleaving, the first request of each carries the body it
\* carries when the invocation runs alone.
C23_Independent ==
  \A inv \in {Locals, other} :
    (inv.route = "openFetch" /\ inv.sent # <<>>)
      => inv.sent[1].req.body = OwnBody(inv.config)

\* C24: in the chained endpoint, at every step after the first for which
\* the loop finds a link, the link is applied to the raw body of the
\* previous step whatever that body is (null, 0, false and "" included):
\* the request issued is the one of the step with the link's outcome as its
\* body.
C24_FalsyNotSkipped ==
  [][(/\ route = "chainFetch"
      /\ pc = "loop"
      /\ i > 0
      /\ i < Len(config.steps)
      /\ Truthy(chain_transformAt(config, i))
      /\ pc' = "fetch")
       => LET step == config.steps[i + 1]
              link == chain_applyLink(step, chain_transformAt(config, i), currentData)
          IN  sent'[Len(sent')].req = RequestOf([step EXCEPT !.body = link.body])]_vars

\* C25: in both endpoints, the request of a step whose body is present
\* (0, false and "" included) carries the JSON serialization of that body,
\* and a request has no body only when its step has none.
C25_BodyPresentIsSent ==
  (pc \in {"fetch", "body"} /\ call.n = Len(sent))
    => sent[call.n].req.body = JSONstringify(call.step.body)

\* C26: the two transform registries agree: for every registered name and
\* every input, the transform of the chained endpoint returns the value the
\* transform of the single-hop endpoint returns (textToSpeechPayload builds
\* the same object in both, extractOpenAIText gives the nested text or its
\* input).
C26_RegistriesAgree ==
  (/\ Returned("chain_applyTransform")
   /\ invoked.args.transformFn.s \in RegisteredTransforms)
  => invoked.out
       = open_applyTransform(invoked.args.transformFn, invoked.args.data)

\* C27: in the chained endpoint the user's bearer token is sent to no host
\* other than api.openai.com, whatever else the URL of a step contains.
C27_BearerOnlyToProvider ==
  (Chained /\ Truthy(accessToken)) =>
    \A n \in 1..Len(sent) :
      ("authorization" \in DOMAIN sent[n].req.headers
         /\ Bearer(accessToken) \in
              {sent[n].req.headers["authorization"][k] :
                 k \in DOMAIN sent[n].req.headers["authorization"]})
        => HostOf(sent[n].req.url) = "api.openai.com"

\* C28: sign-out is final: once the sign-out has deleted the caller's row,
\* no row of user_auth exists for the caller, whatever a concurrent
\* getValidAccessToken / updateStoredTokens does afterwards.
C28_SignOutFinal == signedOut => user_auth = Null

\* C29: a call of injectAtPath that returns has changed the target only at
\* the path: at every node along the path the keys other than the next
\* segment hold what they held, and an intermediate key that was present
\* with a value that is no mapping (null, 0, false, "" included) still
\* holds that value: it is never replaced by a new empty mapping.
C29_OnlyPathChanges ==
  (Returned("injectAtPath") /\ ~IsThrow(invoked.out)) =>
    LET parts == SplitPath(invoked.args.path)
    IN  \A k \in 1..Len(parts) :
          LET before == NodeAt(TargetBefore, parts, k - 1)
              after  == NodeAt(TargetAfter, parts, k - 1)
          IN  before.t \in {"object", "array"} =>
                /\ after.t = before.t
                /\ \A key \in DOMAIN before.o \ {parts[k]} :
                     key \in DOMAIN after.o /\ after.o[key] = before.o[key]
                /\ (/\ k < Len(parts)
                    /\ parts[k] \in DOMAIN before.o
                    /\ before.o[parts[k]].t \notin {"object", "array"})
                   => (/\ parts[k] \in DOMAIN after.o
                       /\ after.o[parts[k]] = before.o[parts[k]])

\* The positions of POST inside getValidAccessToken.
InGetValidAccessToken ==
  pc \in {"getStoredTokens", "refreshGoogleToken", "updateStoredTokens", "upsert"}

\* C30: getValidAccessToken leaves the credential store untouched unless it
\* refreshes.  A refresh request is issued only for a stored token that
\* expires less than 300 seconds after now; for a token that expires 300
\* seconds or more after now the stored access token is returned with no
\* refresh and no write.  The only write is the one after a successful
\* refresh: the row then holds the new access token and expiry, the new
\* refresh token or, when the provider returned none, the previous one
\* (never an empty one), and the provider it had.  When the write fails no
\* token is returned.
C30_StoreFrame ==
  [][(/\ (refreshes' # refreshes)
            => (tokens # Null /\ tokens.expires_at < now + ExpiryMargin)
      /\ (InGetValidAccessToken /\ ~InGetValidAccessToken' /\ tokens' # Null
            /\ tokens'.expires_at >= now + ExpiryMargin)
            => (/\ accessToken' = Str(tokens'.access_token)
                /\ refreshes' = 0
                /\ writes' = 0
                /\ user_auth' = user_auth)
      /\ (user_auth' # user_auth \/ writes' # writes)
            => (/\ pc = "upsert"
                /\ refreshes = 1
                /\ user_auth # Null
                /\ user_auth' # Null
                /\ user_auth'.provider = user_auth.provider
                /\ user_auth'.refresh_token # ""
                /\ \E ans \in TokenAnswers :
                     /\ ans.ok
                     /\ user_auth'.access_token = ans.access_token
                     /\ user_auth'.expires_at = now + ans.expires_in
                     /\ user_auth'.refresh_token =
                          IF ans.refresh_token # "" THEN ans.refresh_token
                          ELSE user_auth.refresh_token
                /\ accessToken' = Str(user_auth'.access_token))
      /\ (pc = "upsert" /\ user_auth' = user_auth)
            => (accessToken' = Null /\ pc' = "done"))]_vars

\* A refresh whose answer carried no refresh token was written: the row
\* holds the new access token and the previous refresh token.
C30_Witness ==
  /\ Chained
  /\ pc = "parse"
  /\ refreshes = 1
  /\ writes = 1
  /\ tokens.refresh_token = "rt-old"
  /\ user_auth = [access_token |-> "at-new", refresh_token |-> "rt-old",
                  expires_at |-> now + 3600, provider |-> "google"]
  /\ accessToken = Str("at-new")

====
